---- MODULE Spec2Model ----
(***************************************************************************)
(* Study-Buddy: the quiz/game engines.                                     *)
(*   - KnowledgeDash (src/components/KnowledgeDash.tsx): the timed         *)
(*     true/false Fact-Check game.                                         *)
(*   - MemoryGame (src/components/Flashcard.tsx): the Matching game.       *)
(* Strings are sequences of one-character strings.  Event handlers run to  *)
(* completion (single-threaded event loop); a setTimeout callback is a     *)
(* record holding the values its closure captured, waiting in a queue.     *)
(***************************************************************************)
EXTENDS Integers, Sequences, FiniteSets, TLC

\* ------------------------------------------------------------------------
\* Strings
\* ------------------------------------------------------------------------

\* the delimiter class of the split regex of line 34: colon, hyphen, en dash and
\* em dash (the two dashes are written "ndash" and "mdash", one character each)
Delims == {":", "-", "ndash", "mdash"}

\* the characters String.prototype.trim removes (the ones the inputs use)
WhiteSpace == {" "}

\* index of the first delimiter of s, 0 when there is none
RECURSIVE FirstDelimFrom(_, _)
FirstDelimFrom(s, i) ==
    IF i > Len(s) THEN 0
    ELSE IF s[i] \in Delims THEN i
    ELSE FirstDelimFrom(s, i + 1)

\* s.split(/[:\-–—]/): every delimiter separates two parts
RECURSIVE Split(_)
Split(s) ==
    LET i == FirstDelimFrom(s, 1) IN
    IF i = 0 THEN <<s>>
    ELSE <<SubSeq(s, 1, i - 1)>> \o Split(SubSeq(s, i + 1, Len(s)))

RECURSIVE TrimStart(_)
TrimStart(s) ==
    IF s # <<>> /\ Head(s) \in WhiteSpace THEN TrimStart(Tail(s)) ELSE s

RECURSIVE TrimEnd(_)
TrimEnd(s) ==
    IF s # <<>> /\ s[Len(s)] \in WhiteSpace
    THEN TrimEnd(SubSeq(s, 1, Len(s) - 1)) ELSE s

\* s.trim()
Trim(s) == TrimEnd(TrimStart(s))

\* ------------------------------------------------------------------------
\* KnowledgeDash: the pool and generateQuestion
\* ------------------------------------------------------------------------

\* the pairs one bullet point contributes (lines 34-37)
PointPairs(p) ==
    LET parts == Split(p) IN
    IF Len(parts) >= 2
    THEN <<[term |-> Trim(parts[1]), def |-> Trim(parts[2])]>>
    ELSE <<>>

RECURSIVE PointsPairs(_)
PointsPairs(points) ==
    IF points = <<>> THEN <<>>
    ELSE PointPairs(Head(points)) \o PointsPairs(Tail(points))

RECURSIVE NotesPairs(_)
NotesPairs(notes) ==
    IF notes = <<>> THEN <<>>
    ELSE PointsPairs(Head(notes).points) \o NotesPairs(Tail(notes))

\* allPairs of generateQuestion: the flashcards, then the bullets that split
AllPairs(d) ==
    [i \in 1..Len(d.flashcards) |->
        [term |-> d.flashcards[i].front, def |-> d.flashcards[i].back]]
    \o NotesPairs(d.clean_notes)

\* "no question": the null of currentQuestion
NoQuestion == [term |-> <<>>, definition |-> <<>>, isCorrect |-> FALSE, null |-> TRUE]

MkQuestion(t, d, c) == [term |-> t, definition |-> d, isCorrect |-> c, null |-> FALSE]

RedrawNever(pool, a, b) == FALSE

\* the loop condition of line 50: pairB is drawn again
Redraw(pool, a, b) == pool[b].term = pool[a].term

\* the pairs the redraw loop of lines 49-52 can leave with, for base pair a
MismatchPairs(pool, a) ==
    {j \in 1..Len(pool) : ~Redraw(pool, a, j)}

\* the values generateQuestion can return for the pool
GenerateQuestion(pool) ==
    IF Len(pool) < 2 THEN {NoQuestion}
    ELSE {MkQuestion(pool[a].term, pool[a].def, TRUE) : a \in 1..Len(pool)}
         \cup UNION {{MkQuestion(pool[a].term, pool[b].def, FALSE) :
                        b \in MismatchPairs(pool, a)} : a \in 1..Len(pool)}

\* the redraw loop of lines 50-52 never exits for some base pair
CanHang(pool) ==
    /\ Len(pool) >= 2
    /\ \E a \in 1..Len(pool) : MismatchPairs(pool, a) = {}

\* ------------------------------------------------------------------------
\* KnowledgeDash: inputs
\* ------------------------------------------------------------------------

Card(f, b) == [front |-> f, back |-> b]

Note(h, ps) == [heading |-> h, points |-> ps]

MkData(fs, ns) == [flashcards |-> fs, clean_notes |-> ns]

\* the data props the game is played on: pools of 0, 1, 2, 3 and 3 pairs
\* (the last one with a repeated term), and a pool whose terms are all equal
DataSets ==
    { MkData(<<>>, <<>>),
      MkData(<<Card(<<"A">>, <<"1">>)>>, <<Note(<<"H">>, <<<<"n", "o">>>>)>>),
      MkData(<<Card(<<"A">>, <<"1">>)>>,
             <<Note(<<"H">>, <<<<"B", " ", ":", " ", "2">>>>)>>),
      MkData(<<Card(<<"A">>, <<"1">>), Card(<<"B">>, <<"2">>),
               Card(<<"C">>, <<"3">>)>>, <<>>),
      MkData(<<Card(<<"A">>, <<"1">>), Card(<<"A">>, <<"2">>)>>,
             <<Note(<<"H">>, <<<<"B", "-", "1">>>>)>>),
      MkData(<<Card(<<"A">>, <<"1">>), Card(<<"A">>, <<"2">>)>>, <<>>) }

\* ------------------------------------------------------------------------
\* KnowledgeDash: state
\* ------------------------------------------------------------------------

VARIABLES
    data,             \* props.data
    gameState,        \* 'idle' | 'playing' | 'ended'
    currentQuestion,  \* Question | null
    score,
    streak,
    lives,
    timeLeft,
    feedback,         \* 'correct' | 'wrong' | null ("none")
    timeouts,         \* pending setTimeout callbacks of handleAnswer, oldest first
    hung,             \* the event loop is stuck inside generateQuestion
    answered,         \* accepted answers to the current Question (observation only)
    last              \* the event handled last (observation only)

dashVars == <<data, gameState, currentQuestion, score, streak, lives,
              timeLeft, feedback, timeouts, hung, answered, last>>

\* correct answers in a row the explored runs go up to
MaxStreak == 3

\* a pending callback: the lives and the comparison its closure captured;
\* stale: startGame ran after it was scheduled; ticked: the 1000 ms interval
\* fired during its 600 ms delay
Callback(l, ok) == [lives |-> l, ok |-> ok, stale |-> FALSE, ticked |-> FALSE]

NoCallback == Callback(0, FALSE)

Event(op, answer, acc, cb) ==
    [op |-> op, answer |-> answer, accepted |-> acc, cb |-> cb]

DashInit ==
    /\ data \in DataSets
    /\ gameState = "idle"
    /\ currentQuestion = NoQuestion
    /\ score = 0
    /\ streak = 0
    /\ lives = 3
    /\ timeLeft = 30
    /\ feedback = "none"
    /\ timeouts = <<>>
    /\ hung = FALSE
    /\ answered = 0
    /\ last = Event("init", FALSE, FALSE, NoCallback)

ResetRoundKeepsLives ==
    [score |-> 0, streak |-> 0, lives |-> lives, timeLeft |-> 30]

\* the values startGame sets (lines 59-62)
ResetRound == [score |-> 0, streak |-> 0, lives |-> 3, timeLeft |-> 30]

\* startGame (the START CHALLENGE button of idle, the Play Again button of
\* ended); when generateQuestion does not return, no update is committed
startGame ==
    /\ ~hung
    /\ gameState \in {"idle", "ended"}
    /\ last' = Event("start", FALSE, TRUE, NoCallback)
    /\ \/ /\ \E q \in GenerateQuestion(AllPairs(data)) :
                currentQuestion' = q
          /\ score' = ResetRound.score
          /\ streak' = ResetRound.streak
          /\ lives' = ResetRound.lives
          /\ timeLeft' = ResetRound.timeLeft
          /\ gameState' = "playing"
          /\ answered' = 0
          /\ timeouts' = [i \in 1..Len(timeouts) |->
                            [timeouts[i] EXCEPT !.stale = TRUE]]
          /\ UNCHANGED <<data, feedback, hung>>
       \/ /\ CanHang(AllPairs(data))
          /\ hung' = TRUE
          /\ UNCHANGED <<data, gameState, currentQuestion, score, streak,
                         lives, timeLeft, feedback, timeouts, answered>>

AnswerIgnoredNoFeedbackCheck == currentQuestion.null

\* the guard of line 68
AnswerIgnored == currentQuestion.null \/ feedback # "none"

AwardFlat(s) == 10 * s

\* the points of a correct answer on streak s (line 72)
Award(s) == 10 * (s + 1)

StreakAfterWrongKeeps(s) == s

\* line 78
StreakAfterWrong(s) == 0

LivesAfterWrongKeeps(l) == l

\* line 77
LivesAfterWrong(l) == l - 1

\* variant: the FAKE / FACT buttons are rendered in every phase
AnswerButtonsShownAlways == TRUE

\* the FAKE / FACT buttons are rendered after the returns of the idle view
\* (line 110) and of the ended view (line 133)
AnswerButtonsShown == gameState \notin {"idle", "ended"}

\* handleAnswer(answer) (the FAKE / FACT buttons, rendered while playing)
handleAnswer(answer) ==
    /\ ~hung
    /\ AnswerButtonsShown
    /\ IF AnswerIgnored
       THEN /\ last' = Event("answer", answer, FALSE, NoCallback)
            /\ UNCHANGED <<data, gameState, currentQuestion, score, streak,
                           lives, timeLeft, feedback, timeouts, hung, answered>>
       ELSE LET ok == (answer = currentQuestion.isCorrect) IN
            /\ ok => streak < MaxStreak
            /\ last' = Event("answer", answer, TRUE, Callback(lives, ok))
            /\ IF ok
               THEN /\ score' = score + Award(streak)
                    /\ streak' = streak + 1
                    /\ feedback' = "correct"
                    /\ lives' = lives
               ELSE /\ lives' = LivesAfterWrong(lives)
                    /\ streak' = StreakAfterWrong(streak)
                    /\ feedback' = "wrong"
                    /\ score' = score
            /\ timeouts' = Append(timeouts, Callback(lives, ok))
            /\ answered' = answered + 1
            /\ UNCHANGED <<data, gameState, currentQuestion, timeLeft, hung>>

SettleEndsOnZero(cb) == cb.lives <= 0

\* the test of line 84 on the captured values
SettleEnds(cb) == cb.lives <= (IF cb.ok THEN 0 ELSE 1)

\* the callback of lines 82-90
settle ==
    /\ ~hung
    /\ timeouts # <<>>
    /\ LET cb == Head(timeouts) IN
       /\ last' = Event("settle", FALSE, TRUE, cb)
       /\ IF SettleEnds(cb)
          THEN /\ gameState' = "ended"
               /\ feedback' = "none"
               /\ timeouts' = Tail(timeouts)
               /\ UNCHANGED <<data, currentQuestion, score, streak, lives,
                              timeLeft, hung, answered>>
          ELSE \/ /\ \E q \in GenerateQuestion(AllPairs(data)) :
                       currentQuestion' = q
                  /\ feedback' = "none"
                  /\ timeouts' = Tail(timeouts)
                  /\ answered' = 0
                  /\ UNCHANGED <<data, gameState, score, streak, lives,
                                 timeLeft, hung>>
               \/ /\ CanHang(AllPairs(data))
                  /\ hung' = TRUE
                  /\ UNCHANGED <<data, gameState, currentQuestion, score,
                                 streak, lives, timeLeft, feedback, timeouts,
                                 answered>>

TickEndsOnZero(t) == t <= 0

\* the test of line 98
TickEnds(t) == t <= 1

\* the interval callback of lines 96-104, armed while playing and timeLeft > 0;
\* the interval is re-armed at every change of timeLeft or gameState, so at
\* most one tick falls into the 600 ms delay of a pending callback
tick ==
    /\ ~hung
    /\ gameState = "playing" /\ timeLeft > 0
    /\ \A i \in 1..Len(timeouts) : ~timeouts[i].ticked
    /\ last' = Event("tick", FALSE, TRUE, NoCallback)
    /\ IF TickEnds(timeLeft)
       THEN /\ gameState' = "ended"
            /\ timeLeft' = 0
       ELSE /\ timeLeft' = timeLeft - 1
            /\ gameState' = gameState
    /\ timeouts' = [i \in 1..Len(timeouts) |->
                      [timeouts[i] EXCEPT !.ticked = TRUE]]
    /\ UNCHANGED <<data, currentQuestion, score, streak, lives, feedback,
                   hung, answered>>

\* ------------------------------------------------------------------------
\* MemoryGame: initGame's pair extraction
\* ------------------------------------------------------------------------

Min(a, b) == IF a < b THEN a ELSE b

\* s.substring(0, n)
Substring0(s, n) == SubSeq(s, 1, Min(Len(s), n))

Ellipsis == <<".", ".", ".">>

\* the pairs one bullet point contributes (lines 89-95)
GamePointPairs(point) ==
    LET parts == Split(point) IN
    IF Len(parts) >= 2 /\ Len(Trim(parts[1])) < 40 /\ Len(Trim(parts[2])) > 5
    THEN <<[term |-> Trim(parts[1]),
            def  |-> Substring0(Trim(parts[2]), 100)
                     \o (IF Len(Trim(parts[2])) > 100 THEN Ellipsis ELSE <<>>)]>>
    ELSE <<>>

RECURSIVE GamePointsPairs(_)
GamePointsPairs(points) ==
    IF points = <<>> THEN <<>>
    ELSE GamePointPairs(Head(points)) \o GamePointsPairs(Tail(points))

RECURSIVE GameNotesPairs(_)
GameNotesPairs(ns) ==
    IF ns = <<>> THEN <<>>
    ELSE GamePointsPairs(Head(ns).points) \o GameNotesPairs(Tail(ns))

\* the fallback of lines 100-109 over notes.slice(0, 4)
RECURSIVE FallbackPairs(_)
FallbackPairs(ns) ==
    IF ns = <<>> THEN <<>>
    ELSE (IF Len(Head(ns).points) > 0
          THEN <<[term |-> Head(ns).heading,
                  def  |-> Substring0(Head(ns).points[1], 100)]>>
          ELSE <<>>) \o FallbackPairs(Tail(ns))

\* pairs of initGame before the shuffle (lines 85-109)
GamePairs(ns) ==
    LET pairs == GameNotesPairs(ns) IN
    IF Len(pairs) < 3
    THEN pairs \o FallbackPairs(SubSeq(ns, 1, Min(Len(ns), 4)))
    ELSE pairs

\* the orders a sort with a random comparator can leave the indices S in
RECURSIVE Shuffles(_)
Shuffles(S) ==
    IF S = {} THEN {<<>>}
    ELSE UNION {{<<x>> \o t : t \in Shuffles(S \ {x})} : x \in S}

\* variant: both cards of a pair get the id idx * 2
GameCardsSameId(selectedPairs) ==
    [k \in 1..(2 * Len(selectedPairs)) |->
        LET idx == (k - 1) \div 2 IN
        [id |-> idx * 2,
         content |-> IF k % 2 = 1 THEN selectedPairs[idx + 1].term
                                  ELSE selectedPairs[idx + 1].def,
         type |-> IF k % 2 = 1 THEN "term" ELSE "definition", pairId |-> idx,
         isFlipped |-> FALSE, isMatched |-> FALSE]]

\* gameCards of lines 114-132 for the selected pairs
GameCards(selectedPairs) ==
    [k \in 1..(2 * Len(selectedPairs)) |->
        LET idx == (k - 1) \div 2 IN
        IF k % 2 = 1
        THEN [id |-> idx * 2, content |-> selectedPairs[idx + 1].term,
              type |-> "term", pairId |-> idx,
              isFlipped |-> FALSE, isMatched |-> FALSE]
        ELSE [id |-> idx * 2 + 1, content |-> selectedPairs[idx + 1].def,
              type |-> "definition", pairId |-> idx,
              isFlipped |-> FALSE, isMatched |-> FALSE]]

\* the card array of lines 112-134 when the sort of the pairs leaves them in
\* order o and the sort of the cards in order c
Layout(pairs, o, c) ==
    LET shuffled == [i \in 1..Len(pairs) |-> pairs[o[i]]]
        selectedPairs == SubSeq(shuffled, 1, Min(Len(shuffled), 4))
        gameCards == GameCards(selectedPairs)
    IN  [i \in 1..Len(gameCards) |-> gameCards[c[i]]]

\* the card arrays initGame can set for the notes (lines 112-134)
InitCards(ns) ==
    LET pairs == GamePairs(ns) IN
    {Layout(pairs, o, c) : o \in Shuffles(1..Len(pairs)),
                           c \in Shuffles(1..(2 * Min(Len(pairs), 4)))}

\* the orders of 1..n, tabulated
ShufflesOf == [n \in 0..8 |-> Shuffles(1..n)]

\* ------------------------------------------------------------------------
\* MemoryGame: state
\* ------------------------------------------------------------------------

\* the notes props the game is mounted with: 0, 1 and 2 pairs
NoteSets ==
    { <<>>,
      <<Note(<<"H">>, <<<<"n", "o">>>>)>>,
      <<Note(<<"H">>, <<<<"A", ":", "d", "e", "f", "i", "n", "e">>>>)>> }

\* initGame's outcomes, tabulated for the notes props
InitCardsOf == [ns \in NoteSets |-> InitCards(ns)]

\* a bullet "t:defin<k>": a term of 1 character, a definition of 6
Bullet(t, k) == <<t, ":", "d", "e", "f", "i", "n", k>>

\* notes props with 3 and 4 qualifying bullets
BigNoteSets ==
    { <<Note(<<"H">>, <<Bullet("A", "1"), Bullet("B", "2"), Bullet("C", "3")>>)>>,
      <<Note(<<"H">>, <<Bullet("A", "1"), Bullet("B", "2")>>),
        Note(<<"G">>, <<Bullet("C", "3"), Bullet("D", "4")>>)>> }

\* notes props without qualifying bullets: one note without points, four notes
\* without points before a fifth with one, and two notes with one point each
LooseNoteSets ==
    { <<Note(<<"H">>, <<>>)>>,
      <<Note(<<"H">>, <<>>), Note(<<"G">>, <<>>), Note(<<"F">>, <<>>),
        Note(<<"E">>, <<>>), Note(<<"D">>, <<<<"n", "o">>>>)>>,
      <<Note(<<"H">>, <<<<"n", "o">>>>), Note(<<"G">>, <<<<"o", "k">>>>)>> }

\* the notes props the game is mounted with in the mount specification
MountNoteSets == NoteSets \cup BigNoteSets \cup LooseNoteSets

VARIABLES
    notes,         \* props.notes
    cards,         \* GameCard[]
    flippedCards,  \* ids of the face-up, unresolved cards
    matches,
    moves,
    mtimeouts,     \* pending setTimeout callbacks of handleCardClick, oldest first
    mlast          \* the event handled last (observation only)

memVars == <<notes, cards, flippedCards, matches, moves, mtimeouts, mlast>>

\* second selections per session the explored runs go up to
MaxMoves == 2

\* callbacks pending at the same time the explored runs go up to
MaxPending == 2

MEvent(op, id, acc, cb) == [op |-> op, id |-> id, accepted |-> acc, cb |-> cb]

\* a pending callback: its kind and the ids of the two cards its closure uses
\* (the mismatch callback uses none); stale: initGame ran after it was scheduled
MCallback(kind, first, second) ==
    [kind |-> kind, first |-> first, second |-> second, stale |-> FALSE]

NoMCallback == MCallback("none", 0, 0)

MemInit ==
    /\ notes \in NoteSets
    /\ cards = <<>>
    /\ flippedCards = <<>>
    /\ matches = 0
    /\ moves = 0
    /\ mtimeouts = <<>>
    /\ mlast = MEvent("init", 0, FALSE, NoMCallback)

\* initGame: the mount/notes effect of lines 140-142 (ns is the notes prop of
\* the render) and the restart buttons (ns = notes)
initGame(ns) ==
    /\ notes' = ns
    /\ IF ns \in NoteSets
       THEN cards' \in InitCardsOf[ns]
       ELSE LET pairs == GamePairs(ns) IN
            \E o \in ShufflesOf[Len(pairs)] :
               \E c \in ShufflesOf[2 * Min(Len(pairs), 4)] :
                  cards' = Layout(pairs, o, c)
    /\ flippedCards' = <<>>
    /\ matches' = 0
    /\ moves' = 0
    /\ mtimeouts' = [i \in 1..Len(mtimeouts) |->
                        [mtimeouts[i] EXCEPT !.stale = TRUE]]
    /\ mlast' = MEvent("init", 0, TRUE, NoMCallback)

\* the first run of the effect of lines 140-142, right after the mount
mountEffect ==
    /\ mlast = MEvent("init", 0, FALSE, NoMCallback)
    /\ initGame(notes)

\* cards.find(c => c.id === id)
FindCard(cs, id) == cs[CHOOSE i \in 1..Len(cs) : cs[i].id = id
                                  /\ \A j \in 1..(i - 1) : cs[j].id # id]

\* variant: includes finds nothing
IncludesNever(seq, x) == FALSE

\* flippedCards.includes(id)
Includes(seq, x) == \E i \in 1..Len(seq) : seq[i] = x

\* variant: the selection is full at three cards
SelectionFullAtThree == Len(flippedCards) = 3

\* flippedCards.length === 2
SelectionFull == Len(flippedCards) = 2

\* the guard of line 145
ClickIgnored(id) ==
    \/ SelectionFull
    \/ FindCard(cards, id).isMatched
    \/ Includes(flippedCards, id)

\* variant: the move is not counted
MovesAfterSame(m) == m

\* the updater of setMoves, line 151
MovesAfter(m) == m + 1

\* handleCardClick(id), id the id of a rendered card
handleCardClick(id) ==
    /\ \E i \in 1..Len(cards) : cards[i].id = id
    /\ IF ClickIgnored(id)
       THEN /\ mlast' = MEvent("click", id, FALSE, NoMCallback)
            /\ UNCHANGED <<notes, cards, flippedCards, matches, moves, mtimeouts>>
       ELSE LET newFlipped == Append(flippedCards, id) IN
            /\ flippedCards' = newFlipped
            /\ IF Len(newFlipped) = 2
               THEN LET first  == FindCard(cards, newFlipped[1])
                        second == FindCard(cards, newFlipped[2])
                        cb == IF first.pairId = second.pairId
                              THEN MCallback("match", first.id, second.id)
                              ELSE MCallback("mismatch", 0, 0)
                    IN  /\ moves < MaxMoves
                        /\ Len(mtimeouts) < MaxPending
                        /\ moves' = MovesAfter(moves)
                        /\ mtimeouts' = Append(mtimeouts, cb)
                        /\ mlast' = MEvent("click", id, TRUE, cb)
               ELSE /\ moves' = moves
                    /\ mtimeouts' = mtimeouts
                    /\ mlast' = MEvent("click", id, TRUE, NoMCallback)
            /\ UNCHANGED <<notes, cards, matches>>

\* a 600 ms match callback fires before every callback scheduled after it and
\* can overtake the 1200 ms mismatch callbacks scheduled before it
CanFire(i) ==
    /\ i \in 1..Len(mtimeouts)
    /\ \A j \in 1..(i - 1) :
          mtimeouts[j].kind = "mismatch" /\ mtimeouts[i].kind = "match"

RemoveAt(seq, i) == SubSeq(seq, 1, i - 1) \o SubSeq(seq, i + 1, Len(seq))

\* variant: the matched pair is taken off the board
MarkMatchedDrops(cs, cb) ==
    SelectSeq(cs, LAMBDA c : c.id # cb.first /\ c.id # cb.second)

\* variant: only the first card of the pair is marked
MarkMatchedFirstOnly(cs, cb) ==
    [k \in 1..Len(cs) |->
        IF cs[k].id = cb.first
        THEN [cs[k] EXCEPT !.isMatched = TRUE]
        ELSE cs[k]]

\* the setCards updater of lines 158-160
MarkMatched(cs, cb) ==
    [k \in 1..Len(cs) |->
        IF cs[k].id = cb.first \/ cs[k].id = cb.second
        THEN [cs[k] EXCEPT !.isMatched = TRUE]
        ELSE cs[k]]

\* the callbacks of lines 157-163 (match) and 166-168 (mismatch)
mSettle(i) ==
    /\ CanFire(i)
    /\ LET cb == mtimeouts[i] IN
       /\ mlast' = MEvent("settle", 0, TRUE, cb)
       /\ mtimeouts' = RemoveAt(mtimeouts, i)
       /\ flippedCards' = <<>>
       /\ IF cb.kind = "match"
          THEN /\ cards' = MarkMatched(cards, cb)
               /\ matches' = matches + 1
          ELSE /\ cards' = cards
               /\ matches' = matches
       /\ UNCHANGED <<notes, moves>>

\* line 173
isGameOver == matches > 0 /\ 2 * matches = Len(cards)

\* ------------------------------------------------------------------------
\* generateQuestion, statement by statement (lines 41-54)
\* ------------------------------------------------------------------------

\* pairs in the pools generateQuestion is run on
MaxPool == 3

Terms == {<<"A">>, <<"B">>, <<"C">>}

Defs == {<<"1">>, <<"2">>, <<"3">>}

RECURSIVE SeqsUpTo(_, _)
SeqsUpTo(S, n) ==
    IF n = 0 THEN {<<>>}
    ELSE LET shorter == SeqsUpTo(S, n - 1) IN
         shorter \cup {Append(q, x) : q \in {r \in shorter : Len(r) = n - 1}, x \in S}

Pools == SeqsUpTo([term : Terms, def : Defs], MaxPool)

VARIABLES
    gPool,       \* allPairs
    gPc,         \* "start" | "loop" | "done"
    gIsCorrect,  \* isCorrectMatch
    gA,          \* index of pairA, 0 before it is drawn
    gB,          \* index of pairB, 0 before it is drawn
    gResult      \* the value returned

genVars == <<gPool, gPc, gIsCorrect, gA, gB, gResult>>

GenInit ==
    /\ gPool \in Pools
    /\ gPc = "start"
    /\ gIsCorrect = FALSE
    /\ gA = 0
    /\ gB = 0
    /\ gResult = NoQuestion

\* line 41: the pool is too small
genNull ==
    /\ gPc = "start"
    /\ Len(gPool) < 2
    /\ gPc' = "done"
    /\ gResult' = NoQuestion
    /\ UNCHANGED <<gPool, gIsCorrect, gA, gB>>

\* lines 43-47: isCorrectMatch drawn true
genCorrect ==
    /\ gPc = "start"
    /\ Len(gPool) >= 2
    /\ \E a \in 1..Len(gPool) :
          /\ gA' = a
          /\ gResult' = MkQuestion(gPool[a].term, gPool[a].def, TRUE)
    /\ gIsCorrect' = TRUE
    /\ gPc' = "done"
    /\ UNCHANGED <<gPool, gB>>

\* lines 43-44 and 49: isCorrectMatch drawn false, pairA and the first pairB
genDraw ==
    /\ gPc = "start"
    /\ Len(gPool) >= 2
    /\ gA' \in 1..Len(gPool)
    /\ gB' \in 1..Len(gPool)
    /\ gIsCorrect' = FALSE
    /\ gPc' = "loop"
    /\ UNCHANGED <<gPool, gResult>>

\* lines 50-52: one more draw of pairB
genRedraw ==
    /\ gPc = "loop"
    /\ Redraw(gPool, gA, gB)
    /\ gB' \in 1..Len(gPool)
    /\ UNCHANGED <<gPool, gPc, gIsCorrect, gA, gResult>>

\* line 53
genReturn ==
    /\ gPc = "loop"
    /\ ~Redraw(gPool, gA, gB)
    /\ gResult' = MkQuestion(gPool[gA].term, gPool[gB].def, FALSE)
    /\ gPc' = "done"
    /\ UNCHANGED <<gPool, gIsCorrect, gA, gB>>

\* ------------------------------------------------------------------------
\* Pair extraction on one bullet point (KnowledgeDash lines 33-38)
\* ------------------------------------------------------------------------

\* characters in the bullet points the extraction is run on
MaxLen == 5

Alphabet == {"a", " ", ":", "-"}

Bullets == SeqsUpTo(Alphabet, MaxLen)

VARIABLES
    xPoint,   \* p, the bullet point
    xPc,      \* "start" | "done"
    xPairs    \* the pairs pushed for p

extVars == <<xPoint, xPc, xPairs>>

ExtInit ==
    /\ xPoint \in Bullets
    /\ xPc = "start"
    /\ xPairs = <<>>

\* the body of n.points.forEach for p = xPoint
extractPoint ==
    /\ xPc = "start"
    /\ xPairs' = PointPairs(xPoint)
    /\ xPc' = "done"
    /\ UNCHANGED xPoint

\* ------------------------------------------------------------------------
\* Game-specific extraction on one bullet point (Flashcard.tsx lines 88-96)
\* ------------------------------------------------------------------------

\* the longest term in the bullet points the game extraction is run on
MaxTermLen == 41

\* the lengths of the definitions in those bullet points
DefLens == {0, 1, 5, 6}

\* the character c, n times
Rep(c, n) == [k \in 1..n |-> c]

\* bullets "term:definition", bare and with blanks around both segments
GameBullets ==
    { Rep("t", n) \o <<":">> \o Rep("d", m) :
          n \in 0..MaxTermLen, m \in DefLens }
    \cup
    { <<" ">> \o Rep("t", n) \o <<" ", "-", " ">> \o Rep("d", m) \o <<" ">> :
          n \in 0..MaxTermLen, m \in DefLens }

GameExtInit ==
    /\ xPoint \in GameBullets
    /\ xPc = "start"
    /\ xPairs = <<>>

\* the body of note.points.forEach in initGame for point = xPoint
gameExtractPoint ==
    /\ xPc = "start"
    /\ xPairs' = GamePointPairs(xPoint)
    /\ xPc' = "done"
    /\ UNCHANGED xPoint

\* ------------------------------------------------------------------------
\* ExamView: the practice view (ExamView.tsx)
\* ------------------------------------------------------------------------

\* MCQQuestion and ShortQuestion (types.ts) without the question text; option
\* strings are compared and tested for truthiness only
MCQ(options, correct_answer) ==
    [options |-> options, correct_answer |-> correct_answer]

ExamQuestions(mcq, short) == [mcq |-> mcq, short |-> short]

\* the questions props: two questions with non-empty options, one whose first
\* option is the empty string, and one with two short-answer questions
ExamSets ==
    { ExamQuestions(<<MCQ(<<"a", "b">>, "a"), MCQ(<<"c", "d">>, "d")>>, 1),
      ExamQuestions(<<MCQ(<<"", "x">>, "x")>>, 1),
      ExamQuestions(<<MCQ(<<"a", "b">>, "b")>>, 2) }

\* the texts typed into a textarea
Drafts == {"", "t"}

\* a Record<number, T> entry: unset (undefined) or set to val
Unset(v) == [set |-> FALSE, val |-> v]

SetTo(v) == [set |-> TRUE, val |-> v]

VARIABLES questions, selectedOptions, shortAnswers, revealedShort,
          showOverallAnswers, shownAt, elast

examVars == <<questions, selectedOptions, shortAnswers, revealedShort,
              showOverallAnswers, shownAt, elast>>

McqIdx == 0..(Len(questions.mcq) - 1)

ShortIdx == 0..(questions.short - 1)

\* the {} of lines 14-16 and 36-38, read at the indexes of the questions
NoSelections == [q \in McqIdx |-> Unset("")]

NoDrafts == [q \in ShortIdx |-> Unset("")]

NoReveals == [q \in ShortIdx |-> Unset(FALSE)]

\* the last event: its handler, the question index and option or text it was
\* called with, and how many resets ran in a row (counted up to 2)
EEvent(op, q, opt, n) == [op |-> op, q |-> q, opt |-> opt, n |-> n]

\* lines 14-17; shownAt remembers the selections at the last "Show Answers"
ExamInit ==
    /\ questions \in ExamSets
    /\ selectedOptions = NoSelections
    /\ shortAnswers = NoDrafts
    /\ revealedShort = NoReveals
    /\ showOverallAnswers = FALSE
    /\ shownAt = NoSelections
    /\ elast = EEvent("init", 0, "", 0)

\* !!selected of line 77: undefined and "" are falsy
Truthy(e) == e.set /\ e.val # ""

\* lines 75-77, for the selections sel and the global toggle show
IsCorrect(sel, q) ==
    sel[q].set /\ sel[q].val = questions.mcq[q + 1].correct_answer

HasAnswered(sel, show, q) == Truthy(sel[q]) \/ show

\* what the card of question q shows (lines 80-85): "none" while unanswered or
\* under global reveal, else the verdict on the selection
Verdict(sel, show, q) ==
    IF HasAnswered(sel, show, q) /\ ~show
    THEN (IF IsCorrect(sel, q) THEN "correct" ELSE "incorrect")
    ELSE "none"

\* the colour of option opt of question q (lines 89-100)
OptionColor(sel, show, q, opt) ==
    IF show
    THEN (IF opt = questions.mcq[q + 1].correct_answer THEN "green" ELSE "plain")
    ELSE IF sel[q].set /\ sel[q].val = opt
         THEN (IF IsCorrect(sel, q) THEN "green" ELSE "red")
         ELSE "plain"

\* disabled of line 105
Disabled(q) ==
    HasAnswered(selectedOptions, showOverallAnswers, q) /\ ~showOverallAnswers

\* variant: the handler has no early return
ClickBlockedNever == FALSE

\* the early return of line 20
ClickBlocked == showOverallAnswers

\* handleOptionClick(qIdx, option), from an enabled option button
handleOptionClick(q, opt) ==
    /\ q \in McqIdx
    /\ \E o \in 1..Len(questions.mcq[q + 1].options) :
          questions.mcq[q + 1].options[o] = opt
    /\ ~Disabled(q)
    /\ selectedOptions' = IF ClickBlocked
                          THEN selectedOptions
                          ELSE [selectedOptions EXCEPT ![q] = SetTo(opt)]
    /\ elast' = EEvent("click", q, opt, 0)
    /\ UNCHANGED <<questions, shortAnswers, revealedShort, showOverallAnswers,
                   shownAt>>

\* variant: the model answer follows the per-question flag alone
IsRevealedFlagOnly(q) == revealedShort[q].val

\* isRevealed of line 132
IsRevealed(q) == revealedShort[q].val \/ showOverallAnswers

\* variant: the updater sets the flag
ToggleFlagSets(prev, q) == [prev EXCEPT ![q] = SetTo(TRUE)]

\* the updater of line 31: !undefined is true
ToggleFlag(prev, q) == [prev EXCEPT ![q] = SetTo(~prev[q].val)]

\* toggleShortReveal(qIdx), lines 29-32
toggleShortReveal(q) ==
    /\ q \in ShortIdx
    /\ revealedShort' = ToggleFlag(revealedShort, q)
    /\ elast' = EEvent("toggleShort", q, "", 0)
    /\ UNCHANGED <<questions, selectedOptions, shortAnswers, showOverallAnswers,
                   shownAt>>

\* the textarea's onChange, line 143
changeShort(q, text) ==
    /\ q \in ShortIdx
    /\ shortAnswers' = [shortAnswers EXCEPT ![q] = SetTo(text)]
    /\ elast' = EEvent("change", q, text, 0)
    /\ UNCHANGED <<questions, selectedOptions, revealedShort, showOverallAnswers,
                   shownAt>>

\* variant: reset flips the global toggle
ResetOverallFlips == ~showOverallAnswers

\* setShowOverallAnswers(false), line 39
ResetOverall == FALSE

\* resetPractice, lines 34-40
resetPractice ==
    /\ selectedOptions' = NoSelections
    /\ shortAnswers' = NoDrafts
    /\ revealedShort' = NoReveals
    /\ showOverallAnswers' = ResetOverall
    /\ elast' = EEvent("reset", 0, "",
                       IF elast.op = "reset" THEN 2 ELSE 1)
    /\ UNCHANGED <<questions, shownAt>>

\* the Show Answers / Hide Answers button, line 57
toggleOverall ==
    /\ showOverallAnswers' = ~showOverallAnswers
    /\ shownAt' = IF showOverallAnswers THEN shownAt ELSE selectedOptions
    /\ elast' = EEvent("toggle", 0, "", 0)
    /\ UNCHANGED <<questions, selectedOptions, shortAnswers, revealedShort>>

\* ------------------------------------------------------------------------
\* App: the session history (part_000 lines 55, 76-85, 115-132)
\* ------------------------------------------------------------------------

\* a StudyBuddyResponse: its id, and ver to tell a saved copy from the stored
Session(id, ver) == [id |-> id, ver |-> ver]

\* the cap of line 118
HistoryCap == 15

\* handler calls in one run
MaxOps == 4

\* the histories found in localStorage at mount: none, 14 and 15 sessions
\* with distinct ids
InitHistories ==
    { [i \in 1..n |-> Session(i, 0)] : n \in {0, HistoryCap - 1, HistoryCap} }

\* the ids saved and deleted: the first and the last of a full history and two
\* that are in none
OpIds == {1, HistoryCap, HistoryCap + 2, HistoryCap + 3}

VARIABLES history, stored, ops, slast

storeVars == <<history, stored, ops, slast>>

SEvent(op, id) == [op |-> op, id |-> id]

\* after the load effect of lines 76-85
StoreInit ==
    /\ history \in InitHistories
    /\ stored = history
    /\ ops = 0
    /\ slast = SEvent("init", 0)

\* prev.filter(item => item.id !== id)
FilterOut(h, id) == SelectSeq(h, LAMBDA item : item.id # id)

\* variant: slice keeps everything
Slice0All(h, n) == h

\* h.slice(0, n)
Slice0(h, n) == SubSeq(h, 1, Min(Len(h), n))

\* variant: the session is prepended without the filter
UpdatedNoFilter(h, session) == Slice0(<<session>> \o h, HistoryCap)

\* updated of line 118
Updated(h, session) ==
    Slice0(<<session>> \o FilterOut(h, session.id), HistoryCap)

\* saveToHistory(session), lines 115-122
saveToHistory(session) ==
    /\ ops < MaxOps
    /\ ops' = ops + 1
    /\ history' = Updated(history, session)
    /\ stored' = Updated(history, session)
    /\ slast' = SEvent("save", session.id)

\* deleteFromHistory(e, id), lines 124-132, from the delete button of a listed
\* session
deleteFromHistory(id) ==
    /\ ops < MaxOps
    /\ \E i \in 1..Len(history) : history[i].id = id
    /\ ops' = ops + 1
    /\ history' = FilterOut(history, id)
    /\ stored' = FilterOut(history, id)
    /\ slast' = SEvent("delete", id)

\* ------------------------------------------------------------------------
\* App: start-up, daily usage and analyses (part_000 lines 44-113, 134-230)
\* ------------------------------------------------------------------------

DAILY_LIMIT == 5

\* days in one run
MaxDay == 2

\* file reads and analyses pending at once
MaxInflight == 2

\* a localStorage item as getItem returns it: absent (null), a text JSON.parse
\* throws on (garbage), or the text of the JSON value val
Item(kind, val) == [kind |-> kind, val |-> val]

\* a JSON value as the usage initializer reads it: null, or an object with its
\* count and lastDate (lastDate 0: the object has no such property)
UsageVal(type, count, lastDate) ==
    [type |-> type, count |-> count, lastDate |-> lastDate]

\* a JSON value as the history effect reads it: null or an array
HistoryVal(type, list) == [type |-> type, list |-> list]

\* the dailyUsage state
Usage(count, lastDate) == [count |-> count, lastDate |-> lastDate]

\* JSON.stringify(dailyUsage), line 88
StringifyUsage(u) == Item("json", UsageVal("object", u.count, u.lastDate))

\* JSON.parse: throws on a text that is no JSON, else gives the value
JSONparse(item) == [throws |-> item.kind = "garbage", val |-> item.val]

\* the study_buddy_usage items found at start-up
UsageItems ==
    {Item(k, UsageVal("null", 0, 0)) : k \in {"absent", "garbage", "json"}}
      \cup {Item("json", UsageVal("object", 0, 0))}
      \cup {StringifyUsage(Usage(c, d)) : c \in {0, 4, DAILY_LIMIT},
                                          d \in 1..MaxDay}

\* the study_buddy_history items found at start-up
HistoryItems ==
    {Item(k, HistoryVal("null", <<>>)) : k \in {"absent", "garbage", "json"}}
      \cup {Item("json", HistoryVal("array", h)) :
               h \in {<<>>, <<Session(1, 0)>>, <<Session(2, 0), Session(1, 0)>>}}

\* the ids crypto.randomUUID gives the results (geminiService.ts)
ResultIds == {1, 2}

VARIABLES lsUsage, lsHistory, bootPc, crashed, state, error, dailyUsage, today,
          inflight, alast

appVars == <<lsUsage, lsHistory, bootPc, crashed, state, error, dailyUsage,
             today, inflight, alast>>

\* the last event: its handler and whether it went through
AEvent(op, ok) == [op |-> op, ok |-> ok]

\* before the first render: the two items are whatever the browser holds
BootInit ==
    /\ lsUsage \in UsageItems
    /\ lsHistory \in HistoryItems
    /\ today \in 1..MaxDay
    /\ bootPc = "render"
    /\ crashed = FALSE
    /\ state = "IDLE"
    /\ error = "none"
    /\ dailyUsage = Usage(0, 0)
    /\ inflight = <<>>
    /\ alast = AEvent("init", FALSE)
    /\ history = <<>> /\ stored = <<>> /\ ops = 0 /\ slast = SEvent("init", 0)

\* JSON.parse(saved) or parsed.lastDate throws (lines 63-64)
UsageParseThrows(saved) ==
    JSONparse(saved).throws \/ JSONparse(saved).val.type = "null"

\* the useState initializer of lines 59-67, in the first render
usageInitializer ==
    /\ bootPc = "render"
    /\ IF lsUsage.kind # "absent" /\ UsageParseThrows(lsUsage)
       THEN /\ crashed' = TRUE
            /\ bootPc' = "failed"
            /\ dailyUsage' = dailyUsage
            /\ alast' = AEvent("usageInitializer", FALSE)
       ELSE LET parsed == JSONparse(lsUsage).val IN
            /\ dailyUsage' = IF /\ lsUsage.kind = "json"
                                /\ parsed.type = "object"
                                /\ parsed.lastDate = today
                             THEN Usage(parsed.count, parsed.lastDate)
                             ELSE Usage(0, today)
            /\ bootPc' = "effects"
            /\ crashed' = crashed
            /\ alast' = AEvent("usageInitializer", TRUE)
    /\ UNCHANGED <<lsUsage, lsHistory, state, error, today, inflight,
                   storeVars>>

\* the mount effects of lines 76-85 and 87-89; a history of null makes the
\* next render throw at history.length (line 444)
mountEffects ==
    /\ bootPc = "effects"
    /\ bootPc' = "done"
    /\ lsUsage' = StringifyUsage(dailyUsage)
    /\ LET saved == lsHistory
           parsed == JSONparse(saved)
       IN  IF saved.kind = "absent" \/ parsed.throws
           THEN /\ UNCHANGED <<history, stored, crashed>>
                /\ alast' = AEvent("mountEffects", TRUE)
           ELSE IF parsed.val.type = "array"
                THEN /\ history' = parsed.val.list
                     /\ stored' = parsed.val.list
                     /\ crashed' = crashed
                     /\ alast' = AEvent("mountEffects", TRUE)
                ELSE /\ UNCHANGED <<history, stored>>
                     /\ crashed' = TRUE
                     /\ alast' = AEvent("mountEffects", FALSE)
    /\ UNCHANGED <<lsHistory, state, error, dailyUsage, today, inflight, ops,
                   slast>>

\* the App after a start-up without stored items
UsageInit ==
    /\ today = 1
    /\ dailyUsage = Usage(0, today)
    /\ lsUsage = StringifyUsage(dailyUsage)
    /\ lsHistory = Item("absent", HistoryVal("null", <<>>))
    /\ bootPc = "done"
    /\ crashed = FALSE
    /\ state = "IDLE"
    /\ error = "none"
    /\ inflight = <<>>
    /\ alast = AEvent("init", FALSE)
    /\ history = <<>> /\ stored = <<>> /\ ops = 0 /\ slast = SEvent("init", 0)

\* the condition of checkLimit, line 98
LimitReached ==
    dailyUsage.lastDate = today /\ dailyUsage.count >= DAILY_LIMIT

\* the updater of incrementUsage, lines 109-112
IncrementUsage(prev) ==
    Usage(IF prev.lastDate = today THEN prev.count + 1 ELSE 1, today)

\* the upload area and the Analyze button are shown in IDLE and are dead at
\* the limit (lines 361, 404, 434)
InputsLive == state = "IDLE" /\ dailyUsage.count < DAILY_LIMIT

\* a pending file read or analysis; reset: handleReset ran while the analysis
\* request was pending (observation only)
Pending(stage) == [stage |-> stage, reset |-> FALSE]

\* startAnalysis('paste') up to its await, lines 134-149
startAnalysis ==
    /\ bootPc = "done" /\ ~crashed
    /\ InputsLive
    /\ IF LimitReached
       THEN /\ error' = "limit"
            /\ state' = "ERROR"
            /\ inflight' = inflight
            /\ alast' = AEvent("startAnalysis", FALSE)
       ELSE /\ Len(inflight) < MaxInflight
            /\ state' = "LOADING"
            /\ error' = "none"
            /\ inflight' = Append(inflight, Pending("analysing"))
            /\ alast' = AEvent("startAnalysis", TRUE)
    /\ UNCHANGED <<lsUsage, lsHistory, bootPc, crashed, dailyUsage, today,
                   storeVars>>

\* handleFileUpload up to readAsDataURL, lines 168-176
handleFileUpload(hasFile) ==
    /\ bootPc = "done" /\ ~crashed
    /\ InputsLive
    /\ IF LimitReached
       THEN /\ error' = "limit"
            /\ state' = "ERROR"
            /\ inflight' = inflight
            /\ alast' = AEvent("handleFileUpload", FALSE)
       ELSE IF ~hasFile
            THEN /\ UNCHANGED <<error, state, inflight>>
                 /\ alast' = AEvent("handleFileUpload", FALSE)
            ELSE /\ Len(inflight) < MaxInflight
                 /\ UNCHANGED <<error, state>>
                 /\ inflight' = Append(inflight, Pending("reading"))
                 /\ alast' = AEvent("handleFileUpload", TRUE)
    /\ UNCHANGED <<lsUsage, lsHistory, bootPc, crashed, dailyUsage, today,
                   storeVars>>

\* reader.onload up to its await, lines 177-190
readerLoaded(i) ==
    /\ i \in 1..Len(inflight)
    /\ inflight[i].stage = "reading"
    /\ state' = "LOADING"
    /\ inflight' = [inflight EXCEPT ![i] = Pending("analysing")]
    /\ alast' = AEvent("readerLoaded", TRUE)
    /\ UNCHANGED <<lsUsage, lsHistory, bootPc, crashed, error, dailyUsage,
                   today, storeVars>>

\* the rest of an analysis after its await: lines 153-157 and 191-195 when
\* the service gave a result with the id, lines 158-162 and 196-199 when it
\* threw; with the usage effect of lines 87-89
analysisDone(i, ok, id) ==
    /\ i \in 1..Len(inflight)
    /\ inflight[i].stage = "analysing"
    /\ inflight' = RemoveAt(inflight, i)
    /\ IF ok
       THEN /\ history' = Updated(history, Session(id, 1))
            /\ stored' = Updated(history, Session(id, 1))
            /\ dailyUsage' = IncrementUsage(dailyUsage)
            /\ lsUsage' = StringifyUsage(IncrementUsage(dailyUsage))
            /\ state' = "RESULT"
            /\ error' = error
       ELSE /\ UNCHANGED <<history, stored, dailyUsage, lsUsage>>
            /\ error' = "failed"
            /\ state' = "ERROR"
    /\ alast' = AEvent("analysisDone", ok)
    /\ UNCHANGED <<lsHistory, bootPc, crashed, today, ops, slast>>

\* handleReset, lines 211-219, from the header logo or a view's button; no
\* pending request is cancelled
handleReset ==
    /\ bootPc = "done" /\ ~crashed
    /\ state' = "IDLE"
    /\ error' = "none"
    /\ inflight' = [i \in 1..Len(inflight) |->
                       IF inflight[i].stage = "analysing"
                       THEN [inflight[i] EXCEPT !.reset = TRUE]
                       ELSE inflight[i]]
    /\ alast' = AEvent("handleReset", TRUE)
    /\ UNCHANGED <<lsUsage, lsHistory, bootPc, crashed, dailyUsage, today,
                   storeVars>>

\* loadFromHistory(session), lines 226-230, from the list of the IDLE view
loadFromHistory(i) ==
    /\ bootPc = "done" /\ ~crashed
    /\ state = "IDLE"
    /\ i \in 1..Len(history)
    /\ state' = "RESULT"
    /\ alast' = AEvent("loadFromHistory", TRUE)
    /\ UNCHANGED <<lsUsage, lsHistory, bootPc, crashed, error, dailyUsage,
                   today, inflight, storeVars>>

\* the date changes; new Date().toDateString() is read at each call
midnight ==
    /\ bootPc = "done"
    /\ today < MaxDay
    /\ today' = today + 1
    /\ alast' = AEvent("midnight", TRUE)
    /\ UNCHANGED <<lsUsage, lsHistory, bootPc, crashed, state, error,
                   dailyUsage, inflight, storeVars>>

\* ------------------------------------------------------------------------
\* Specifications
\* ------------------------------------------------------------------------

vars == <<data, gameState, currentQuestion, score, streak, lives, timeLeft,
          feedback, timeouts, hung, answered, last,
          notes, cards, flippedCards, matches, moves, mtimeouts, mlast,
          gPool, gPc, gIsCorrect, gA, gB, gResult,
          xPoint, xPc, xPairs,
          questions, selectedOptions, shortAnswers, revealedShort,
          showOverallAnswers, shownAt, elast,
          history, stored, ops, slast,
          lsUsage, lsHistory, bootPc, crashed, state, error, dailyUsage,
          today, inflight, alast>>

\* the components at rest
DashIdle ==
    /\ data = MkData(<<>>, <<>>) /\ gameState = "idle"
    /\ currentQuestion = NoQuestion
    /\ score = 0 /\ streak = 0 /\ lives = 3 /\ timeLeft = 30
    /\ feedback = "none" /\ timeouts = <<>> /\ hung = FALSE /\ answered = 0
    /\ last = Event("init", FALSE, FALSE, NoCallback)

MemIdle ==
    /\ notes = <<>> /\ cards = <<>> /\ flippedCards = <<>>
    /\ matches = 0 /\ moves = 0 /\ mtimeouts = <<>>
    /\ mlast = MEvent("init", 0, FALSE, NoMCallback)

GenIdle ==
    /\ gPool = <<>> /\ gPc = "start" /\ gIsCorrect = FALSE
    /\ gA = 0 /\ gB = 0 /\ gResult = NoQuestion

ExtIdle == xPoint = <<>> /\ xPc = "start" /\ xPairs = <<>>

ExamIdle ==
    /\ questions = ExamQuestions(<<>>, 0)
    /\ selectedOptions = <<>> /\ shortAnswers = <<>> /\ revealedShort = <<>>
    /\ showOverallAnswers = FALSE /\ shownAt = <<>>
    /\ elast = EEvent("init", 0, "", 0)

StoreIdle ==
    /\ history = <<>> /\ stored = <<>> /\ ops = 0
    /\ slast = SEvent("init", 0)

AppIdle ==
    /\ lsUsage = Item("absent", UsageVal("null", 0, 0))
    /\ lsHistory = Item("absent", HistoryVal("null", <<>>))
    /\ bootPc = "render" /\ crashed = FALSE /\ state = "IDLE"
    /\ error = "none" /\ dailyUsage = Usage(0, 0) /\ today = 1
    /\ inflight = <<>> /\ alast = AEvent("init", FALSE)

\* every component but those of the Fact-Check game at rest, and so on
RestIdle == ExamIdle /\ StoreIdle /\ AppIdle

\* the variables of the other components
notDash == <<memVars, genVars, extVars, examVars, storeVars,
            appVars>>

notMem == <<dashVars, genVars, extVars, examVars, storeVars,
            appVars>>

notGen == <<dashVars, memVars, extVars, examVars, storeVars,
            appVars>>

notExt == <<dashVars, memVars, genVars, examVars, storeVars,
            appVars>>

notExam == <<dashVars, memVars, genVars, extVars, storeVars, appVars>>

notStore == <<dashVars, memVars, genVars, extVars, examVars, appVars>>

notApp == <<dashVars, memVars, genVars, extVars, examVars>>

Init == DashInit /\ MemIdle /\ GenIdle /\ ExtIdle /\ RestIdle

Next ==
    \/ startGame /\ UNCHANGED notDash
    \/ \E answer \in BOOLEAN : handleAnswer(answer) /\ UNCHANGED notDash
    \/ settle /\ UNCHANGED notDash
    \/ tick /\ UNCHANGED notDash

\* the Fact-Check game
Spec == Init /\ [][Next]_vars

\* the Fact-Check game in which a pending setTimeout callback fires
FairSpec == Spec /\ WF_vars(settle /\ UNCHANGED notDash)

\* the Fact-Check game in which pending callbacks fire and the armed 1000 ms
\* interval ticks
FairTickSpec ==
    /\ Spec
    /\ WF_vars(settle /\ UNCHANGED notDash)
    /\ WF_vars(tick /\ UNCHANGED notDash)

MemoryInit == MemInit /\ DashIdle /\ GenIdle /\ ExtIdle /\ RestIdle

MemoryNext ==
    \/ \E ns \in NoteSets : initGame(ns) /\ UNCHANGED notMem
    \/ \E id \in 0..7 : handleCardClick(id) /\ UNCHANGED notMem
    \/ \E i \in 1..Len(mtimeouts) : mSettle(i) /\ UNCHANGED notMem

\* the Matching game
SpecMemory == MemoryInit /\ [][MemoryNext]_vars

GenQInit == GenInit /\ DashIdle /\ MemIdle /\ ExtIdle /\ RestIdle

GenNext ==
    \/ genNull /\ UNCHANGED notGen
    \/ genCorrect /\ UNCHANGED notGen
    \/ genDraw /\ UNCHANGED notGen
    \/ genRedraw /\ UNCHANGED notGen
    \/ genReturn /\ UNCHANGED notGen

\* one call of generateQuestion
SpecGen == GenQInit /\ [][GenNext]_vars

\* the redraw of lines 50-52 drawing the pool's pair b
genRedrawTo(b) == genRedraw /\ gB' = b

\* one call of generateQuestion that keeps running and in which Math.random
\* is fair: a pair that can be drawn again and again is drawn at some time
FairSpecGen ==
    /\ SpecGen
    /\ WF_vars(GenNext)
    /\ \A b \in 1..MaxPool : SF_vars(genRedrawTo(b) /\ UNCHANGED notGen)

MountInit ==
    /\ MemInit!2 /\ MemInit!3 /\ MemInit!4 /\ MemInit!5 /\ MemInit!6 /\ MemInit!7
    /\ notes \in MountNoteSets
    /\ DashIdle /\ GenIdle /\ ExtIdle /\ RestIdle

MountNext == mountEffect /\ UNCHANGED notMem

\* the mount of the Matching game: the first initGame
SpecMount == MountInit /\ [][MountNext]_vars

ExtractInit == ExtInit /\ DashIdle /\ MemIdle /\ GenIdle /\ RestIdle

ExtractNext == extractPoint /\ UNCHANGED notExt

\* the pool building on one bullet point
SpecExtract == ExtractInit /\ [][ExtractNext]_vars

GameExtractInit == GameExtInit /\ DashIdle /\ MemIdle /\ GenIdle /\ RestIdle

GameExtractNext == gameExtractPoint /\ UNCHANGED notExt

\* the game's pair extraction on one bullet point
SpecGameExtract == GameExtractInit /\ [][GameExtractNext]_vars

PracticeInit ==
    ExamInit /\ DashIdle /\ MemIdle /\ GenIdle /\ ExtIdle /\ StoreIdle /\ AppIdle

PracticeNext ==
    \/ \E q \in McqIdx : \E opt \in {"", "a", "b", "c", "d", "x"} :
          handleOptionClick(q, opt) /\ UNCHANGED notExam
    \/ \E q \in ShortIdx : toggleShortReveal(q) /\ UNCHANGED notExam
    \/ \E q \in ShortIdx : \E text \in Drafts :
          changeShort(q, text) /\ UNCHANGED notExam
    \/ resetPractice /\ UNCHANGED notExam
    \/ toggleOverall /\ UNCHANGED notExam

\* the practice view
SpecPractice == PracticeInit /\ [][PracticeNext]_vars

HistoryInit ==
    StoreInit /\ DashIdle /\ MemIdle /\ GenIdle /\ ExtIdle /\ ExamIdle /\ AppIdle

HistoryNext ==
    \/ \E id \in OpIds : saveToHistory(Session(id, 1)) /\ UNCHANGED notStore
    \/ \E id \in OpIds : deleteFromHistory(id) /\ UNCHANGED notStore

\* the session history
SpecHistory == HistoryInit /\ [][HistoryNext]_vars

StartUpInit ==
    BootInit /\ DashIdle /\ MemIdle /\ GenIdle /\ ExtIdle /\ ExamIdle

StartUpNext ==
    \/ usageInitializer /\ UNCHANGED notApp
    \/ mountEffects /\ UNCHANGED notApp

\* the start-up of the App: first render and mount effects
SpecStartUp == StartUpInit /\ [][StartUpNext]_vars

AnalysesInit ==
    UsageInit /\ DashIdle /\ MemIdle /\ GenIdle /\ ExtIdle /\ ExamIdle

AnalysesNext ==
    \/ startAnalysis /\ UNCHANGED notApp
    \/ \E hasFile \in BOOLEAN : handleFileUpload(hasFile) /\ UNCHANGED notApp
    \/ \E i \in 1..Len(inflight) : readerLoaded(i) /\ UNCHANGED notApp
    \/ \E i \in 1..Len(inflight) : \E ok \in BOOLEAN : \E id \in ResultIds :
          analysisDone(i, ok, id) /\ UNCHANGED notApp
    \/ handleReset /\ UNCHANGED notApp
    \/ \E i \in 1..Len(history) : loadFromHistory(i) /\ UNCHANGED notApp
    \/ midnight /\ UNCHANGED notApp

\* the App after start-up: analyses and the daily usage
SpecAnalyses == AnalysesInit /\ [][AnalysesNext]_vars

\* ------------------------------------------------------------------------
\* Fact-Check claims
\* ------------------------------------------------------------------------

AcceptedAnswerStep == last'.op = "answer" /\ last'.accepted

\* C1: an accepted answer equal to question.isCorrect on streak s adds exactly
\* 10*(s+1) to score, increments streak, sets feedback=correct and leaves
\* lives alone; so with no wrong answer since the start (lives = 3) the score
\* is 10+20+...+10*streak (60 at streak 3).
C1_CorrectAnswer ==
    /\ [][(AcceptedAnswerStep /\ last'.answer = currentQuestion.isCorrect)
            => /\ score' = score + 10 * (streak + 1)
               /\ streak' = streak + 1
               /\ feedback' = "correct"
               /\ lives' = lives]_vars
    /\ [](lives = 3 => 2 * score = 10 * streak * (streak + 1))
    /\ [](lives = 3 /\ streak = 3 => score = 60)

C1_Witness ==
    /\ last.op = "answer" /\ last.accepted /\ last.cb.ok
    /\ feedback = "correct" /\ streak = 3 /\ score = 60 /\ lives = 3

\* C2: an accepted answer different from question.isCorrect decrements lives
\* by exactly 1, resets streak to 0, sets feedback=wrong and leaves score and
\* timeLeft unchanged.
C2_WrongAnswer ==
    [][(AcceptedAnswerStep /\ last'.answer # currentQuestion.isCorrect)
         => /\ lives' = lives - 1
            /\ streak' = 0
            /\ feedback' = "wrong"
            /\ score' = score
            /\ timeLeft' = timeLeft]_vars

C2_Witness ==
    /\ last.op = "answer" /\ last.accepted /\ ~last.cb.ok
    /\ last.cb.lives = 3 /\ lives = 2 /\ streak = 0 /\ score = 30
    /\ feedback = "wrong"

\* C3: the settle callback of a wrong answer that took lives from 1 to 0 sets
\* the phase to ended, whatever timeLeft is, and generates no Question; the
\* settle callback of a wrong answer that left lives >= 1 does not change the
\* phase.
C3_LivesExhausted ==
    [][(last'.op = "settle" /\ ~last'.cb.ok)
         => IF last'.cb.lives = 1
            THEN gameState' = "ended" /\ currentQuestion' = currentQuestion
            ELSE gameState' = gameState]_vars

C3_Witness ==
    /\ last.op = "settle" /\ ~last.cb.ok /\ last.cb.lives = 1
    /\ gameState = "ended" /\ lives = 0 /\ timeLeft = 30

\* C4: a tick happens only while playing, changes timeLeft by exactly -1, and
\* the tick that takes timeLeft to 0 sets the phase to ended in the same step,
\* whatever lives and feedback are.
C4_TimeOut ==
    [][last'.op = "tick"
         => /\ gameState = "playing"
            /\ timeLeft' = timeLeft - 1
            /\ (timeLeft' = 0 => gameState' = "ended")
            /\ (timeLeft' > 0 => gameState' = "playing")]_vars

C4_Witness ==
    /\ last.op = "tick" /\ timeLeft = 0 /\ gameState = "ended"
    /\ lives = 2 /\ feedback = "correct"

\* C5: an answer given while there is no active question or while feedback is
\* not none changes nothing and schedules no callback; no Question is
\* answered more than once.
C5_AnswerIgnored ==
    /\ [][(last'.op = "answer" /\ (currentQuestion.null \/ feedback # "none"))
            => UNCHANGED <<score, streak, lives, feedback, currentQuestion,
                           gameState, timeouts>>]_vars
    /\ [][(score' # score \/ lives' # lives) /\ last'.op = "answer"
            => answered = 0]_vars
    /\ [](answered <= 1)

C5_Witness ==
    /\ last.op = "answer" /\ ~last.accepted
    /\ feedback = "correct" /\ ~currentQuestion.null /\ answered = 1

C7_StaleSettleDiscarded ==
    [][(last'.op = "settle" /\ last'.cb.stale)
         => UNCHANGED <<gameState, currentQuestion, feedback>>]_vars

\* C9: with fewer than 2 pairs in the pool the engine is never playing
\* without a current Question.
C9_NoRoundWithoutQuestion ==
    Len(AllPairs(data)) < 2 => ~(gameState = "playing" /\ currentQuestion.null)

\* C25: in every reachable state score >= 0, streak >= 0, lives is in 0..3
\* and timeLeft is in 0..30.
C25_RoundStateRanges ==
    /\ score >= 0
    /\ streak >= 0
    /\ lives \in 0..3
    /\ timeLeft \in 0..30

\* the round over with every life lost and the countdown at 0
C25_Witness ==
    /\ gameState = "ended" /\ lives = 0 /\ timeLeft = 0 /\ score > 0

\* C26: the phase changes only from idle to playing and from ended to playing
\* by startGame and from playing to ended by a tick or a settle callback; it
\* never becomes idle again, and a round does not end with lives >= 1 and
\* timeLeft >= 1.
C26_PhaseOrder ==
    /\ [][gameState' # gameState
            => \/ /\ gameState \in {"idle", "ended"}
                  /\ gameState' = "playing"
                  /\ last'.op = "start"
               \/ /\ gameState = "playing"
                  /\ gameState' = "ended"
                  /\ last'.op \in {"tick", "settle"}]_vars
    /\ [][gameState # "idle" => gameState' # "idle"]_vars
    /\ [][(gameState = "playing" /\ gameState' = "ended")
            => (lives' < 1 \/ timeLeft' < 1)]_vars

\* C27: when the settle callback of an accepted answer of the running round
\* fires with lives >= 1, feedback becomes none, a newly generated Question
\* is current, and the phase stays playing unless the countdown has reached
\* 0; and after every accepted answer feedback is none at some later time.
C27_SettleStep ==
    /\ [][(last'.op = "settle" /\ ~last'.cb.stale /\ lives >= 1)
            => /\ feedback' = "none"
               /\ ~currentQuestion'.null
               /\ answered' = 0
               /\ (timeLeft > 0 => gameState' = "playing")]_vars
    /\ ((last.op = "answer" /\ last.accepted) ~> feedback = "none")

\* C35: a round that is playing has between 1 and 30 seconds left and every
\* tick takes exactly one of them, so a round ends at its 30th tick at the
\* latest; the event loop never gets stuck while a round is playing, so the
\* ticks keep coming; and every round that is playing is ended at some later
\* time, whatever is answered and also without a current Question.
C35_RoundEnds ==
    /\ [](gameState = "playing" => timeLeft \in 1..30)
    /\ [][last'.op = "tick" => timeLeft' = timeLeft - 1]_vars
    /\ [][gameState = "playing" => ~hung']_vars
    /\ (gameState = "playing" ~> gameState = "ended")

\* C36: while the phase is ended, no event (an answer, a tick, a settle
\* callback that was pending when the round ended) changes score, streak or
\* lives; they change again only with the next startGame.
C36_FinalValuesStable ==
    [][(gameState = "ended" /\ gameState' = "ended")
         => UNCHANGED <<score, streak, lives>>]_vars

\* a settle callback fired after the countdown had ended the round, with
\* points scored and lives left
C36_Witness ==
    /\ gameState = "ended"
    /\ last.op = "settle"
    /\ ~SettleEnds(last.cb)
    /\ timeLeft = 0
    /\ score > 0
    /\ lives >= 1

\* C28: the streak does not change while the round is ended, and it is 0
\* whenever a settle callback ends the round with no lives left.
C28_TerminalStreak ==
    /\ [][(gameState = "ended" /\ gameState' = "ended") => streak' = streak]_vars
    /\ [][(gameState = "playing" /\ gameState' = "ended"
             /\ last'.op = "settle" /\ lives' <= 0)
            => streak' = 0]_vars

\* a round ended by the third wrong answer after a streak of 2
C28_Witness ==
    /\ gameState = "ended" /\ last.op = "settle" /\ ~last.cb.stale
    /\ lives = 0 /\ streak = 0 /\ score = 30

\* ------------------------------------------------------------------------
\* Matching claims
\* ------------------------------------------------------------------------

Matched(cs) == [k \in 1..Len(cs) |-> cs[k].isMatched]

\* C8: a match or mismatch callback scheduled before the last initGame does
\* not change the matched flags, the selection or the match counter.
C8_StaleCallbackHarmless ==
    [][(mlast'.op = "settle" /\ mlast'.cb.stale)
         => /\ Matched(cards') = Matched(cards)
            /\ flippedCards' = flippedCards
            /\ matches' = matches]_vars

\* C13: in every reachable state the selection holds at most 2 tile ids, they
\* are distinct, and each is the id of a tile that is not matched.
C13_SelectionBounded ==
    /\ Len(flippedCards) <= 2
    /\ \A i, j \in 1..Len(flippedCards) :
          flippedCards[i] = flippedCards[j] => i = j
    /\ \A i \in 1..Len(flippedCards) :
          /\ \E k \in 1..Len(cards) : cards[k].id = flippedCards[i]
          /\ \A k \in 1..Len(cards) :
                cards[k].id = flippedCards[i] => ~cards[k].isMatched

\* two tiles selected next to a matched pair, after a third click was refused
C13_Witness ==
    /\ Len(flippedCards) = 2
    /\ \E k \in 1..Len(cards) : cards[k].isMatched
    /\ mlast.op = "click" /\ ~mlast.accepted

\* C14: a click while two tiles are selected, or on a matched tile, or on a
\* selected tile changes neither tiles, selection, moves nor matches and
\* schedules no callback; a second click on the tile just selected leaves the
\* selection at length 1.
C14_ClickNoOp ==
    /\ [][(/\ mlast'.op = "click"
           /\ \/ Len(flippedCards) = 2
              \/ FindCard(cards, mlast'.id).isMatched
              \/ \E i \in 1..Len(flippedCards) : flippedCards[i] = mlast'.id)
            => /\ ~mlast'.accepted
               /\ UNCHANGED <<cards, flippedCards, moves, matches,
                              mtimeouts>>]_vars
    /\ [][(/\ mlast.op = "click" /\ mlast.accepted /\ Len(flippedCards) = 1
           /\ mlast'.op = "click" /\ mlast'.id = mlast.id)
            => Len(flippedCards') = 1]_vars

\* the tile just selected was clicked again
C14_Witness ==
    /\ mlast.op = "click" /\ ~mlast.accepted
    /\ flippedCards = <<mlast.id>>

\* C15: in a session that was not restarted, a second click on two tiles of
\* one pairId schedules a match callback for exactly the two selected tiles and
\* a click on tiles of different pairIds a mismatch callback; the match
\* callback marks exactly those two tiles matched, clears the selection and
\* adds 1 to matches; the mismatch callback clears the selection and changes
\* neither the tiles nor matches.
C15_Resolution ==
    /\ [][(mlast'.op = "click" /\ mlast'.accepted /\ Len(flippedCards') = 2)
            => LET first  == FindCard(cards, flippedCards'[1])
                   second == FindCard(cards, flippedCards'[2])
               IN  IF first.pairId = second.pairId
                   THEN /\ mlast'.cb.kind = "match"
                        /\ flippedCards' = <<mlast'.cb.first, mlast'.cb.second>>
                   ELSE mlast'.cb.kind = "mismatch"]_vars
    /\ [][(mlast'.op = "settle" /\ ~mlast'.cb.stale /\ mlast'.cb.kind = "match")
            => LET cb == mlast'.cb
                   pair == {k \in 1..Len(cards) : cards[k].id \in {cb.first, cb.second}}
               IN  /\ Cardinality(pair) = 2
                   /\ Len(cards') = Len(cards)
                   /\ \A k \in pair : cards'[k] = [cards[k] EXCEPT !.isMatched = TRUE]
                   /\ \A k \in (1..Len(cards)) \ pair : cards'[k] = cards[k]
                   /\ flippedCards' = <<>>
                   /\ matches' = matches + 1]_vars
    /\ [][(mlast'.op = "settle" /\ ~mlast'.cb.stale /\ mlast'.cb.kind = "mismatch")
            => /\ flippedCards' = <<>>
               /\ cards' = cards
               /\ matches' = matches]_vars

\* a match callback of the running session has settled its pair
C15_Witness ==
    /\ mlast.op = "settle" /\ ~mlast.cb.stale /\ mlast.cb.kind = "match"
    /\ matches = 1
    /\ \E k \in 1..Len(cards) : cards[k].id = mlast.cb.first /\ cards[k].isMatched

\* C29: moves grows by exactly 1 at each accepted click that brings the
\* selection to 2 tiles, is set to 0 by initGame and is changed by no other
\* step (first clicks, refused clicks, settle callbacks).
C29_MoveCounter ==
    [][IF mlast'.op = "click" /\ mlast'.accepted /\ Len(flippedCards') = 2
       THEN moves' = moves + 1
       ELSE IF mlast'.op = "init"
            THEN moves' = 0
            ELSE moves' = moves]_vars

\* the second move of a session, after a first click and a settled pair
C29_Witness ==
    /\ mlast.op = "click" /\ mlast.accepted /\ Len(flippedCards) = 2
    /\ moves = 2
    /\ mtimeouts = <<mlast.cb>>

\* the id, content, kind and pairId of the tiles, in board order
Faces(cs) ==
    [k \in 1..Len(cs) |->
        <<cs[k].id, cs[k].content, cs[k].type, cs[k].pairId>>]

\* C30: clicks and settle callbacks leave the number and the order of the
\* tiles and every tile's id, content, kind and pairId as they are; only
\* initGame sets new tiles.
C30_TilesStable ==
    [][mlast'.op # "init" => Faces(cards') = Faces(cards)]_vars

\* a pair matched on a board of four tiles, all four still in place
C30_Witness ==
    /\ mlast.op = "settle" /\ mlast.cb.kind = "match" /\ ~mlast.cb.stale
    /\ Len(cards) = 4
    /\ Cardinality({k \in 1..Len(cards) : cards[k].isMatched}) = 2

\* initGame has run
Initialized == mlast # MEvent("init", 0, FALSE, NoMCallback)

\* C16: once the game is initialized, for every game size, it is over exactly
\* when matches is half the number of tiles, and a game of fewer than 4 pairs
\* is over whenever all of its tiles are matched.
C16_CompletionDerived ==
    Initialized =>
        /\ isGameOver <=> 2 * matches = Len(cards)
        /\ (Len(cards) < 8 /\ \A k \in 1..Len(cards) : cards[k].isMatched)
              => isGameOver

\* the pairIds whose two tiles are both matched
MatchedPairs ==
    {pid \in {cards[k].pairId : k \in 1..Len(cards)} :
        /\ Cardinality({k \in 1..Len(cards) : cards[k].pairId = pid}) = 2
        /\ \A k \in 1..Len(cards) : cards[k].pairId = pid => cards[k].isMatched}

\* C37: in every reachable state, restarts and note changes made while a
\* match callback is pending included, matches is the number of pairIds whose
\* two tiles are both matched; so matches is at most half the number of tiles
\* and the game is over only when every tile is matched.
C37_CounterConsistent ==
    /\ matches = Cardinality(MatchedPairs)
    /\ 2 * matches <= Len(cards)
    /\ isGameOver => \A k \in 1..Len(cards) : cards[k].isMatched

\* ------------------------------------------------------------------------
\* Question generation claims
\* ------------------------------------------------------------------------

DistinctTerms(pool) ==
    \A i, j \in 1..Len(pool) : pool[i].term = pool[j].term => i = j

PoolABC == <<[term |-> <<"A">>, def |-> <<"1">>],
             [term |-> <<"B">>, def |-> <<"2">>],
             [term |-> <<"C">>, def |-> <<"3">>]>>

\* C10: for a pool with pairwise distinct terms, a Question returned with
\* isCorrect=false carries the base pair's term and the definition of a pool
\* pair other than the base pair, with a different term; for the pool
\* [{A,1},{B,2},{C,3}] and base A the definition is never "1".
C10_NoSelfPairing ==
    (gPc = "done" /\ ~gResult.null /\ ~gResult.isCorrect /\ DistinctTerms(gPool))
      => /\ gB # gA
         /\ gPool[gB].term # gPool[gA].term
         /\ gResult.term = gPool[gA].term
         /\ gResult.definition = gPool[gB].def
         /\ (gPool = PoolABC /\ gA = 1 => gResult.definition # <<"1">>)

C10_Witness ==
    /\ gPc = "done" /\ ~gResult.null /\ ~gResult.isCorrect
    /\ gPool = PoolABC /\ gA = 1 /\ gB = 3

\* C23: under fair draws generateQuestion returns for every pool, also one
\* with duplicate terms or with one term on all pairs.
C23_GenerationTerminates == <>(gPc = "done")

\* the pool has a pair with term t and definition d
PoolAssigns(pool, t, d) ==
    \E i \in 1..Len(pool) : pool[i].term = t /\ pool[i].def = d

\* C38: for every pool, duplicate terms and duplicate definitions included, a
\* returned Question has isCorrect=true exactly when the pool has a pair with
\* the Question's term and definition; so a Question labelled false never
\* shows a definition the pool assigns to its term.
C38_TruthfulLabel ==
    (gPc = "done" /\ ~gResult.null)
      => (gResult.isCorrect
            <=> PoolAssigns(gPool, gResult.term, gResult.definition))

\* ------------------------------------------------------------------------
\* Pair extraction claims
\* ------------------------------------------------------------------------

HasDelim(s) == FirstDelimFrom(s, 1) # 0

\* the text before and after the first delimiter of s, trimmed
TermOf(s) == Trim(SubSeq(s, 1, FirstDelimFrom(s, 1) - 1))

DefinitionOf(s) == Trim(SubSeq(s, FirstDelimFrom(s, 1) + 1, Len(s)))

ValidSplit(s) == HasDelim(s) /\ TermOf(s) # <<>> /\ DefinitionOf(s) # <<>>

\* C11: a bullet with a delimiter and two non-empty trimmed segments yields
\* exactly one pair; every other bullet (no delimiter, or an empty trimmed
\* term or definition) yields none.
C11_PairOnlyFromValidSplit ==
    xPc = "done" => Len(xPairs) = (IF ValidSplit(xPoint) THEN 1 ELSE 0)

\* the number of pairs initGame keeps for each notes prop, tabulated
PairCountOf ==
    [ns \in MountNoteSets |-> Min(Len(GamePairs(ns)), 4)]

PairCount == PairCountOf[notes]

FreshGame == mlast.op = "init" /\ mlast.accepted

CardsOf(pid, type) ==
    {i \in 1..Len(cards) : cards[i].pairId = pid /\ cards[i].type = type}

\* C12: right after initGame with N pairs (0 <= N <= 4) there are exactly 2N
\* tiles with distinct ids, every pairId 0..N-1 is on exactly one term tile and
\* one definition tile and on no other, no tile is matched, the selection is
\* empty, moves and matches are 0, and the game is not over while matches < N.
C12_FreshInit ==
    FreshGame =>
        /\ PairCount \in 0..4
        /\ Len(cards) = 2 * PairCount
        /\ \A i, j \in 1..Len(cards) : cards[i].id = cards[j].id => i = j
        /\ \A i \in 1..Len(cards) :
              /\ cards[i].pairId \in 0..(PairCount - 1)
              /\ cards[i].type \in {"term", "definition"}
              /\ ~cards[i].isMatched
        /\ \A pid \in 0..(PairCount - 1) :
              /\ Cardinality(CardsOf(pid, "term")) = 1
              /\ Cardinality(CardsOf(pid, "definition")) = 1
        /\ flippedCards = <<>>
        /\ moves = 0
        /\ matches = 0
        /\ (matches < PairCount => ~isGameOver)

C12_Witness == FreshGame /\ PairCount = 4 /\ Len(cards) = 8

\* the qualifying bullet pairs of each notes prop, tabulated
QualifyingOf == [ns \in MountNoteSets |-> GameNotesPairs(ns)]

\* (heading, first point) of the first 4 notes that have a point
HeadingPairs(ns) ==
    {[term |-> ns[i].heading, def |-> ns[i].points[1]] :
        i \in {k \in 1..Min(Len(ns), 4) : ns[k].points # <<>>}}

\* the (term, definition) pairs on the tiles
TilePairs ==
    {[term |-> cards[i].content, def |-> cards[j].content] :
        <<i, j>> \in {ij \in (1..Len(cards)) \X (1..Len(cards)) :
                         /\ cards[ij[1]].pairId = cards[ij[2]].pairId
                         /\ cards[ij[1]].type = "term"
                         /\ cards[ij[2]].type = "definition"}}

\* C32: right after initGame, with fewer than 3 qualifying bullet pairs every
\* pair on the tiles is a qualifying pair or the (heading, first point) of one
\* of the first 4 notes, and every non-empty note set gives at least one pair
\* (2 tiles); with 3 or more qualifying pairs every pair on the tiles is a
\* qualifying pair.
C32_FallbackGivesMaterial ==
    FreshGame =>
        LET q == {QualifyingOf[notes][k] : k \in 1..Len(QualifyingOf[notes])} IN
        /\ Len(QualifyingOf[notes]) < 3
              => TilePairs \subseteq (q \cup HeadingPairs(notes))
        /\ notes # <<>> => Len(cards) >= 2
        /\ Len(QualifyingOf[notes]) >= 3 => TilePairs \subseteq q

\* the delimiters in s
DelimCount(s) == Cardinality({i \in 1..Len(s) : s[i] \in Delims})

\* C24: a bullet with more than one delimiter gives the pair of the trimmed
\* text before its first delimiter and the trimmed whole text after it.
C24_SplitAtFirstDelimiter ==
    (xPc = "done" /\ DelimCount(xPoint) > 1)
      => xPairs = <<[term |-> TermOf(xPoint), def |-> DefinitionOf(xPoint)]>>

\* C31: in the game extraction a bullet with a valid split (a delimiter, a
\* non-empty trimmed term and a non-empty trimmed definition) is rejected
\* exactly when its trimmed term has more than 40 characters; with a term of
\* at most 40 characters, 40 included, it yields one pair.
C31_TermLimit ==
    (xPc = "done" /\ ValidSplit(xPoint))
      => (Len(xPairs) = 0 <=> Len(TermOf(xPoint)) > 40)

\* ------------------------------------------------------------------------
\* Practice claims
\* ------------------------------------------------------------------------

\* C17: an option click on a question without a recorded selection, with
\* global reveal off, records that option; a recorded selection is changed by
\* no step but reset.
C17_SelectionImmutable ==
    /\ [][(/\ elast'.op = "click"
           /\ ~showOverallAnswers
           /\ ~selectedOptions[elast'.q].set)
            => selectedOptions'[elast'.q] = SetTo(elast'.opt)]_vars
    /\ [][\A q \in McqIdx :
            (selectedOptions[q].set /\ elast'.op # "reset")
              => selectedOptions'[q] = selectedOptions[q]]_vars

\* C18: "Show Answers" leaves the selections as they are and colours every
\* option green exactly if it is the correct_answer; an option click while
\* it is on records nothing; "Hide Answers" gives every question the
\* selection, the verdict and the option colours it had before.
C18_GlobalReveal ==
    /\ [][elast'.op = "toggle" => selectedOptions' = selectedOptions]_vars
    /\ [](showOverallAnswers =>
            \A q \in McqIdx :
               /\ Verdict(selectedOptions, showOverallAnswers, q) = "none"
               /\ \A o \in 1..Len(questions.mcq[q + 1].options) :
                    LET opt == questions.mcq[q + 1].options[o] IN
                    OptionColor(selectedOptions, showOverallAnswers, q, opt)
                        = "green"
                      <=> opt = questions.mcq[q + 1].correct_answer)
    /\ [][(elast'.op = "click" /\ showOverallAnswers)
            => selectedOptions' = selectedOptions]_vars
    /\ [][(elast'.op = "toggle" /\ showOverallAnswers)
            => /\ ~showOverallAnswers'
               /\ selectedOptions' = shownAt
               /\ \A q \in McqIdx :
                    /\ HasAnswered(selectedOptions', showOverallAnswers', q)
                         = HasAnswered(shownAt, FALSE, q)
                    /\ Verdict(selectedOptions', showOverallAnswers', q)
                         = Verdict(shownAt, FALSE, q)
                    /\ \A o \in 1..Len(questions.mcq[q + 1].options) :
                         LET opt == questions.mcq[q + 1].options[o] IN
                         OptionColor(selectedOptions', showOverallAnswers', q, opt)
                           = OptionColor(shownAt, FALSE, q, opt)]_vars

\* answers hidden again after a click under reveal, with a wrong selection
\* recorded before the reveal
C18_Witness ==
    /\ elast.op = "toggle" /\ ~showOverallAnswers
    /\ questions.mcq[1].options = <<"a", "b">>
    /\ selectedOptions[0] = SetTo("b")
    /\ shownAt = selectedOptions
    /\ Verdict(selectedOptions, showOverallAnswers, 0) = "incorrect"

\* C19: right after reset no selection, no draft and no reveal flag is set
\* and the global toggle is off; a second reset in a row changes nothing.
C19_Reset ==
    /\ [](elast.op = "reset" =>
            /\ \A q \in McqIdx : ~selectedOptions[q].set
            /\ \A q \in ShortIdx : ~shortAnswers[q].set /\ ~revealedShort[q].set
            /\ \A q \in ShortIdx : ~revealedShort[q].val
            /\ ~showOverallAnswers)
    /\ [][(elast'.op = "reset" /\ elast'.n = 2)
            => UNCHANGED <<selectedOptions, shortAnswers, revealedShort,
                           showOverallAnswers>>]_vars

\* a second reset in a row
C19_Witness ==
    /\ elast.op = "reset" /\ elast.n = 2
    /\ ~showOverallAnswers
    /\ selectedOptions = NoSelections

\* C33: while the global show-all flag is on the model answer of every
\* short-answer question is revealed whatever its own flag is, and a
\* per-question toggle made then leaves every model answer revealed; while the
\* global flag is off, and so right after it is turned off, exactly the
\* questions whose own flag is on are revealed.
C33_ShortUnderGlobalReveal ==
    /\ [](\A q \in ShortIdx :
            /\ showOverallAnswers => IsRevealed(q)
            /\ ~showOverallAnswers => (IsRevealed(q) <=> revealedShort[q].val))
    /\ [][(showOverallAnswers /\ elast'.op = "toggleShort")
            => \A q \in ShortIdx : IsRevealed(q)']_vars
    /\ [][(showOverallAnswers /\ ~showOverallAnswers')
            => \A q \in ShortIdx : IsRevealed(q)' <=> revealedShort'[q].val]_vars

\* a per-question flag was toggled off under global reveal and the model
\* answer is shown
C33_Witness ==
    /\ showOverallAnswers
    /\ elast.op = "toggleShort"
    /\ revealedShort[elast.q].set
    /\ ~revealedShort[elast.q].val
    /\ IsRevealed(elast.q)

\* the reveal flags as the view reads them: undefined is falsy
Flags(rs) == [q \in DOMAIN rs |-> rs[q].val]

\* C34: toggleShortReveal(q) negates the reveal flag of q and leaves the reveal
\* flags of the other questions, all drafts, all selections and the global flag
\* as they were; applied twice to q it gives back the reveal flags it started
\* from.
C34_ToggleFrame ==
    /\ [][elast'.op = "toggleShort"
            => /\ revealedShort'[elast'.q].val = ~revealedShort[elast'.q].val
               /\ \A r \in ShortIdx \ {elast'.q} :
                     revealedShort'[r] = revealedShort[r]
               /\ UNCHANGED <<questions, shortAnswers, selectedOptions,
                              showOverallAnswers>>]_vars
    /\ [](\A q \in ShortIdx :
            Flags(ToggleFlag(ToggleFlag(revealedShort, q), q))
              = Flags(revealedShort))

\* q was toggled off again while the other question's flag is on and a draft
\* and a selection are recorded
C34_Witness ==
    /\ elast.op = "toggleShort"
    /\ questions.short = 2
    /\ revealedShort[elast.q].set
    /\ ~revealedShort[elast.q].val
    /\ revealedShort[1 - elast.q].val
    /\ \E q \in ShortIdx : shortAnswers[q].set
    /\ \E q \in McqIdx : selectedOptions[q].set

\* ------------------------------------------------------------------------
\* Session history claims
\* ------------------------------------------------------------------------

DistinctIds(h) == \A i, j \in 1..Len(h) : h[i].id = h[j].id => i = j

\* h is the sequence g cut off at some length
IsPrefix(h, g) == Len(h) <= Len(g) /\ h = SubSeq(g, 1, Len(h))

\* C20: after saveToHistory(s), s is the first entry, the history is at most
\* 15 long and its other entries are the old entries without the id of s, in
\* their old order, cut off at the end; and after any sequence of saves and
\* deletes no two entries have the same id.
C20_SaveSession ==
    /\ [][slast'.op = "save"
            => /\ Len(history') >= 1
               /\ history'[1] = Session(slast'.id, 1)
               /\ Len(history') <= HistoryCap
               /\ IsPrefix(Tail(history'), FilterOut(history, slast'.id))
               /\ (Len(FilterOut(history, slast'.id)) < HistoryCap
                     => Tail(history') = FilterOut(history, slast'.id))]_vars
    /\ [](DistinctIds(history))

\* a full history after the save of a session that was its last entry
C20_Witness ==
    /\ slast = SEvent("save", HistoryCap)
    /\ Len(history) = HistoryCap
    /\ history[1] = Session(HistoryCap, 1)
    /\ history[2] = Session(1, 0)

\* ------------------------------------------------------------------------
\* App claims
\* ------------------------------------------------------------------------

\* a usage item that is not the text of a usage record
UsageMalformed(item) ==
    \/ item.kind = "garbage"
    \/ item.kind = "json" /\ (item.val.type = "null" \/ item.val.lastDate = 0)

\* a history item that is not the text of an array
HistoryMalformed(item) ==
    \/ item.kind = "garbage"
    \/ item.kind = "json" /\ item.val.type # "array"

\* C21: start-up never fails, after the first render a malformed usage item
\* has given the usage {count 0, lastDate today}, and after the mount effects
\* a malformed history item has given the empty history.
C21_CorruptFallsBack ==
    /\ ~crashed
    /\ (bootPc = "effects" /\ UsageMalformed(lsUsage))
          => dailyUsage = Usage(0, today)
    /\ (bootPc = "done" /\ HistoryMalformed(lsHistory)) => history = <<>>

\* C22: the count recorded for today is never above the daily limit, and a
\* result on a day other than lastDate starts the count of the new day.
C22_UsageCeiling ==
    /\ [](dailyUsage.lastDate = today => dailyUsage.count <= DAILY_LIMIT)
    /\ [][(alast'.op = "analysisDone" /\ alast'.ok
             /\ dailyUsage.lastDate # today)
            => dailyUsage' = Usage(1, today)]_vars

\* C39: when handleReset ran while every analysis now pending was in flight,
\* the completion of one of them leaves the app state IDLE if it was IDLE and
\* changes neither the history nor the usage count.
C39_ResetDiscardsCompletion ==
    [][(/\ alast'.op = "analysisDone"
        /\ \A i \in 1..Len(inflight) :
              inflight[i].stage = "analysing" => inflight[i].reset)
         => /\ state = "IDLE" => state' = "IDLE"
            /\ history' = history
            /\ dailyUsage' = dailyUsage]_vars

====
